---- MODULE Spec2Model ----
(***************************************************************************)
(* Model of the SpaceController add-on: the device wrapper                 *)
(* (src/src/spacecontroller_device.py) and the background poll timer with  *)
(* its toggle operator and register / unregister hooks                     *)
(* (src/src/__init__.py).                                                  *)
(*                                                                         *)
(* The host is single threaded: every handler below runs to completion,    *)
(* so each handler is one atomic action.  What the driver DLL and the      *)
(* host window manager answer is drawn from small sets on every step.      *)
(***************************************************************************)
EXTENDS Integers, Sequences, FiniteSets

\* ------------------------------------------------------------------ bounds
\* How many times a client of the wrapper calls SpaceControllerDevice(...).
MaxObjects == 2
\* How many times register() is called in a run (each call adds one timer).
MaxSessions == 2
\* The view pivot is explored inside the cube [-MaxCoord, MaxCoord]^3.
MaxCoord == 1

\* --------------------------------------------------------------- constants
\* `_device = None`: the module holds no device object.
None == 0
\* The timer callback's three return values.
Stop == "None"
Slow == "0.5"
Fast == "0.01"

VARIABLES
    device,        \* _device: None, or the id of the held SpaceControllerDevice
    enabled,       \* _enabled
    addon_alive,   \* _addon_alive
    registered,    \* whether the add-on's classes are registered with the host
    timers,        \* ids of the timer callbacks the host still has scheduled
    ntimers,       \* number of bpy.app.timers.register calls made so far
    torn,          \* scheduled timers that have lived through an unregister()
    disconnects,   \* disconnects[h]: scDisconnect calls issued through device object h
    failed_opens,  \* "failed to open device" reports printed since the last register()
    view,          \* the first VIEW_3D's region_3d: view_location and view_rotation
    connections,   \* scConnect2 calls that returned 0 minus scDisconnect calls issued
    last           \* what the last handler did (its return value, its driver calls)

vars == <<device, enabled, addon_alive, registered, timers, ntimers, torn,
          disconnects, failed_opens, view, connections, last>>

\* ------------------------------------------------------------------------
\* spacecontroller_device.py
\* ------------------------------------------------------------------------

\* What the platform and the driver answer to one SpaceControllerDevice(...)
\* construction: one environment per path through __init__.
DriverEnvs ==
    LET good == [platform |-> "win32", dll_loads |-> TRUE, has_symbols |-> TRUE,
                 connect_status |-> 0, devnum_status |-> 0, num_all |-> 1]
    IN  { good,
          [good EXCEPT !.platform = "linux"],
          [good EXCEPT !.dll_loads = FALSE],
          [good EXCEPT !.has_symbols = FALSE],
          [good EXCEPT !.connect_status = 1],
          [good EXCEPT !.devnum_status = 1],
          [good EXCEPT !.num_all = 0] }

\* _load_library: RuntimeError off Windows or when ctypes.CDLL raises OSError.
load_library(env) ==
    IF env.platform # "win32"
    THEN [ok |-> FALSE, etype |-> "RuntimeError",
          error |-> "RuntimeError: only supports Windows"]
    ELSE IF ~env.dll_loads
    THEN [ok |-> FALSE, etype |-> "RuntimeError",
          error |-> "RuntimeError: could not load DLL"]
    ELSE [ok |-> TRUE, etype |-> "", error |-> ""]

\* _setup_function_signatures: attribute access on the CDLL raises
\* AttributeError when the library lacks one of the four entry points.
setup_function_signatures(env) ==
    IF ~env.has_symbols
    THEN [ok |-> FALSE, etype |-> "AttributeError", error |-> "AttributeError"]
    ELSE [ok |-> TRUE, etype |-> "", error |-> ""]

\* _connect_and_get_first_device that looks at the device count before the
\* status of the count query.
connect_and_get_first_device_count_first(env) ==
    IF env.connect_status # 0
    THEN [ok |-> FALSE, etype |-> "RuntimeError",
          error |-> "RuntimeError: scConnect2 failed",
          calls |-> <<"scConnect2">>, device_id |-> -1]
    ELSE IF env.num_all <= 0
    THEN [ok |-> FALSE, etype |-> "RuntimeError",
          error |-> "RuntimeError: no devices found",
          calls |-> <<"scConnect2", "scGetDevNum">>, device_id |-> -1]
    ELSE IF env.devnum_status # 0
    THEN [ok |-> FALSE, etype |-> "RuntimeError",
          error |-> "RuntimeError: scGetDevNum failed",
          calls |-> <<"scConnect2", "scGetDevNum">>, device_id |-> -1]
    ELSE [ok |-> TRUE, etype |-> "", error |-> "",
          calls |-> <<"scConnect2", "scGetDevNum">>, device_id |-> 0]

\* _connect_and_get_first_device: the driver calls it issues, in order, and
\* either the selected device index or the error it raises.
connect_and_get_first_device(env) ==
    IF env.connect_status # 0
    THEN [ok |-> FALSE, etype |-> "RuntimeError",
          error |-> "RuntimeError: scConnect2 failed",
          calls |-> <<"scConnect2">>, device_id |-> -1]
    ELSE IF env.devnum_status # 0
    THEN [ok |-> FALSE, etype |-> "RuntimeError",
          error |-> "RuntimeError: scGetDevNum failed",
          calls |-> <<"scConnect2", "scGetDevNum">>, device_id |-> -1]
    ELSE IF env.num_all <= 0
    THEN [ok |-> FALSE, etype |-> "RuntimeError",
          error |-> "RuntimeError: no devices found",
          calls |-> <<"scConnect2", "scGetDevNum">>, device_id |-> -1]
    ELSE [ok |-> TRUE, etype |-> "", error |-> "",
          calls |-> <<"scConnect2", "scGetDevNum">>, device_id |-> 0]

\* Whether scConnect2 returned 0 in a construction: only then is the device
\* count queried.
Connected(res) == \E i \in 1..Len(res.calls) : res.calls[i] = "scGetDevNum"

\* SpaceControllerDevice.__init__: the three steps in order; the first that
\* raises ends the construction.
SpaceControllerDevice(env) ==
    LET lib == load_library(env)
        sig == setup_function_signatures(env)
    IN  IF ~lib.ok
        THEN [ok |-> FALSE, etype |-> lib.etype, error |-> lib.error,
              calls |-> <<>>, device_id |-> -1]
        ELSE IF ~sig.ok
        THEN [ok |-> FALSE, etype |-> sig.etype, error |-> sig.error,
              calls |-> <<>>, device_id |-> -1]
        ELSE connect_and_get_first_device(env)

\* A SpaceControllerState: the six axes and the event code.
Sample(tx, ty, tz, rx, ry, rz) ==
    [tx |-> tx, ty |-> ty, tz |-> tz, rx |-> rx, ry |-> ry, rz |-> rz, event |-> 0]

\* What one scFetchStdData call can do: fault at the binding layer, return a
\* nonzero status, or return status 0 with the axes filled in.
Samples ==
    { Sample(tx, 0, 0, rx, 0, 0) : tx \in {-1, 0, 1}, rx \in {0, 1} }

Fetches ==
    { [fault |-> TRUE, status |-> 0, axes |-> Sample(0, 0, 0, 0, 0, 0)],
      [fault |-> FALSE, status |-> 1, axes |-> Sample(1, 0, 0, 1, 0, 0)] }
    \cup { [fault |-> FALSE, status |-> 0, axes |-> s] : s \in Samples }

\* read_state that takes a nonzero status for an error and raises.
read_state_raises_on_status(f) ==
    IF f.fault \/ f.status # 0
    THEN [raised |-> TRUE, has_state |-> FALSE, state |-> f.axes,
          calls |-> <<"scFetchStdData">>]
    ELSE [raised |-> FALSE, has_state |-> TRUE, state |-> f.axes,
          calls |-> <<"scFetchStdData">>]

\* read_state: a fault of the call propagates; a nonzero status is None; status
\* 0 is a SpaceControllerState holding the axes (float() of a short is exact).
read_state(f) ==
    IF f.fault
    THEN [raised |-> TRUE, has_state |-> FALSE, state |-> f.axes,
          calls |-> <<"scFetchStdData">>]
    ELSE IF f.status # 0
    THEN [raised |-> FALSE, has_state |-> FALSE, state |-> f.axes,
          calls |-> <<"scFetchStdData">>]
    ELSE [raised |-> FALSE, has_state |-> TRUE, state |-> f.axes,
          calls |-> <<"scFetchStdData">>]

\* close: issues scDisconnect once through device object h; whatever the call
\* raises is swallowed.
close(discs, h) ==
    [calls |-> <<"scDisconnect">>,
     disconnects |-> [discs EXCEPT ![h] = @ + 1]]

\* ------------------------------------------------------------------------
\* __init__.py: the view update
\* ------------------------------------------------------------------------

\* The addon preferences read on every update.  Sensitivities are whole
\* multiples of the grid unit of view_location (translation) and of a half
\* turn (rotation), so that every product below is exact.
Prefs ==
    { [move_sensitivity |-> 1, rotate_sensitivity |-> 1,
       invert_x |-> ix, invert_y |-> FALSE, invert_z |-> FALSE,
       enable_rotation |-> er] : ix \in BOOLEAN, er \in BOOLEAN }

\* mathutils quaternions <<w, x, y, z>>: the Hamilton product (Quaternion @
\* Quaternion) and the rotation of a vector (Quaternion @ Vector).
QMul(a, b) ==
    << a[1]*b[1] - a[2]*b[2] - a[3]*b[3] - a[4]*b[4],
       a[1]*b[2] + a[2]*b[1] + a[3]*b[4] - a[4]*b[3],
       a[1]*b[3] - a[2]*b[4] + a[3]*b[1] + a[4]*b[2],
       a[1]*b[4] + a[2]*b[3] - a[3]*b[2] + a[4]*b[1] >>

QConj(q) == << q[1], -q[2], -q[3], -q[4] >>

QRotate(q, v) ==
    LET r == QMul(QMul(q, << 0, v[1], v[2], v[3] >>), QConj(q))
    IN  << r[2], r[3], r[4] >>

\* cos and sin of k quarter turns.
CosQ(k) == << 1, 0, -1, 0 >>[(k % 4) + 1]
SinQ(k) == << 0, 1, 0, -1 >>[(k % 4) + 1]

\* Euler((pitch, yaw, roll), 'XYZ').to_quaternion() for angles given in half
\* turns: the half angles are quarter turns.
EulerToQuaternion(pitch, yaw, roll) ==
    LET ci == CosQ(pitch)  si == SinQ(pitch)
        cj == CosQ(yaw)    sj == SinQ(yaw)
        ch == CosQ(roll)   sh == SinQ(roll)
        cc == ci * ch      cs == ci * sh
        sc == si * ch      ss == si * sh
    IN  << cj * cc + sj * ss,
           cj * sc - sj * cs,
           cj * ss + sj * cc,
           cj * cs - sj * sc >>

VAdd(a, b) == << a[1] + b[1], a[2] + b[2], a[3] + b[3] >>

\* The update that sets view_rotation to delta_rot instead of composing.
apply_state_to_area_replaces_rotation(v, prefs, state) ==
    LET sx == IF prefs.invert_x THEN -1 ELSE 1
        sy == IF prefs.invert_y THEN -1 ELSE 1
        sz == IF prefs.invert_z THEN -1 ELSE 1
        move_scale == prefs.move_sensitivity
        t_right    == state.tx * move_scale * sx
        t_up       == state.ty * move_scale * sy
        t_forward  == state.tz * move_scale * sz
        v_cam      == << t_right, t_up, t_forward >>
        v_world    == QRotate(v.view_rotation, v_cam)
        location   == VAdd(v.view_location, v_world)
        rot_scale  == prefs.rotate_sensitivity
        pitch      == state.rx * rot_scale
        yaw        == state.ry * rot_scale
        roll       == state.rz * rot_scale
        delta_rot  == EulerToQuaternion(pitch, yaw, roll)
    IN  [view_location |-> location,
         view_rotation |-> IF prefs.enable_rotation
                           THEN delta_rot
                           ELSE v.view_rotation]

\* The update without the `if prefs.enable_rotation:` test.
apply_state_to_area_always_rotates(v, prefs, state) ==
    LET sx == IF prefs.invert_x THEN -1 ELSE 1
        sy == IF prefs.invert_y THEN -1 ELSE 1
        sz == IF prefs.invert_z THEN -1 ELSE 1
        move_scale == prefs.move_sensitivity
        t_right    == state.tx * move_scale * sx
        t_up       == state.ty * move_scale * sy
        t_forward  == state.tz * move_scale * sz
        v_cam      == << t_right, t_up, t_forward >>
        v_world    == QRotate(v.view_rotation, v_cam)
        location   == VAdd(v.view_location, v_world)
        rot_scale  == prefs.rotate_sensitivity
        pitch      == state.rx * rot_scale
        yaw        == state.ry * rot_scale
        roll       == state.rz * rot_scale
        delta_rot  == EulerToQuaternion(pitch, yaw, roll)
    IN  [view_location |-> location,
         view_rotation |-> QMul(v.view_rotation, delta_rot)]

\* The update with the Y sign taken from invert_x.
apply_state_to_area_one_sign(v, prefs, state) ==
    LET sx == IF prefs.invert_x THEN -1 ELSE 1
        sy == IF prefs.invert_x THEN -1 ELSE 1
        sz == IF prefs.invert_z THEN -1 ELSE 1
        move_scale == prefs.move_sensitivity
        t_right    == state.tx * move_scale * sx
        t_up       == state.ty * move_scale * sy
        t_forward  == state.tz * move_scale * sz
        v_cam      == << t_right, t_up, t_forward >>
        v_world    == QRotate(v.view_rotation, v_cam)
        location   == VAdd(v.view_location, v_world)
        rot_scale  == prefs.rotate_sensitivity
        pitch      == state.rx * rot_scale
        yaw        == state.ry * rot_scale
        roll       == state.rz * rot_scale
        delta_rot  == EulerToQuaternion(pitch, yaw, roll)
    IN  [view_location |-> location,
         view_rotation |-> IF prefs.enable_rotation
                           THEN QMul(v.view_rotation, delta_rot)
                           ELSE v.view_rotation]

\* _apply_state_to_area on a VIEW_3D area with a region_3d: the new
\* region_3d state and whether the area was tagged for redraw.
apply_state_to_area(v, prefs, state) ==
    LET sx == IF prefs.invert_x THEN -1 ELSE 1
        sy == IF prefs.invert_y THEN -1 ELSE 1
        sz == IF prefs.invert_z THEN -1 ELSE 1
        move_scale == prefs.move_sensitivity
        t_right    == state.tx * move_scale * sx
        t_up       == state.ty * move_scale * sy
        t_forward  == state.tz * move_scale * sz
        v_cam      == << t_right, t_up, t_forward >>
        v_world    == QRotate(v.view_rotation, v_cam)
        location   == VAdd(v.view_location, v_world)
        rot_scale  == prefs.rotate_sensitivity
        pitch      == state.rx * rot_scale
        yaw        == state.ry * rot_scale
        roll       == state.rz * rot_scale
        delta_rot  == EulerToQuaternion(pitch, yaw, roll)
    IN  [view_location |-> location,
         view_rotation |-> IF prefs.enable_rotation
                           THEN QMul(v.view_rotation, delta_rot)
                           ELSE v.view_rotation]

\* _apply_state_to_area as called: nothing happens for an area that is None
\* or not a VIEW_3D, or whose active space has no region_3d; otherwise the
\* view is updated and the area tagged for redraw.
apply_state_to_area_in(area, v, prefs, state) ==
    IF area.type # "VIEW_3D"
    THEN [view |-> v, tagged |-> FALSE]
    ELSE IF ~area.has_region3d
    THEN [view |-> v, tagged |-> FALSE]
    ELSE [view |-> apply_state_to_area(v, prefs, state), tagged |-> TRUE]

\* The explored part of the view space.
InCube(v) ==
    \A i \in 1..3 : v.view_location[i] \in -MaxCoord..MaxCoord

\* ------------------------------------------------------------------------
\* __init__.py: the background timer, the toggle operator, registration
\* ------------------------------------------------------------------------

\* The record of one handler run: which handler, for a timer run which timer
\* and what it returned, the driver calls issued in order, what
\* _find_first_view3d found, how the open went ("ok" or the exception), what
\* the fetch did and on which device object, whether _apply_state_to_area ran,
\* and whether scDisconnect raised inside close().
Handler(op) ==
    [op |-> op, timer |-> 0, ret |-> "-", calls |-> <<>>, area |-> "unseen",
     open |-> "-", fetch |-> "-", fetched |-> None, applied |-> FALSE,
     disc_raised |-> FALSE]

Run(t) == [Handler("timer") EXCEPT !.timer = t]

\* _spacecontroller_timer, `if not _addon_alive:` close a held device, stop.
timer_teardown(t) ==
    /\ IF device # None
       THEN \E raises \in BOOLEAN :
               /\ disconnects' = close(disconnects, device).disconnects
               /\ last' = [Run(t) EXCEPT !.ret = Stop,
                                         !.calls = close(disconnects, device).calls,
                                         !.disc_raised = raises]
       ELSE /\ UNCHANGED disconnects
            /\ last' = [Run(t) EXCEPT !.ret = Stop]
    /\ device' = None
    /\ timers' = timers \ {t}
    /\ torn' = torn \ {t}
    /\ UNCHANGED <<enabled, addon_alive, registered, ntimers, failed_opens, view>>
    /\ connections' = IF device # None THEN connections - 1 ELSE connections

\* The disabled branch that also lets go of the device.
timer_sleep_closes(t) ==
    /\ last' = [Run(t) EXCEPT !.ret = Slow,
                   !.calls = IF device # None THEN <<"scDisconnect">> ELSE <<>>]
    /\ disconnects' = IF device # None
                      THEN close(disconnects, device).disconnects
                      ELSE disconnects
    /\ device' = None
    /\ UNCHANGED <<enabled, addon_alive, registered, timers, ntimers, torn,
                   failed_opens, view>>
    /\ connections' = IF device # None THEN connections - 1 ELSE connections

\* `if not _enabled: return 0.5`
timer_sleep(t) ==
    /\ last' = [Run(t) EXCEPT !.ret = Slow]
    /\ UNCHANGED <<device, enabled, addon_alive, registered, timers, ntimers,
                   torn, disconnects, failed_opens, view>>
    /\ UNCHANGED connections

\* The no-viewport branch that also lets go of the device.
timer_no_view_closes(t) ==
    /\ last' = [Run(t) EXCEPT !.ret = Slow, !.area = "none",
                   !.calls = IF device # None THEN <<"scDisconnect">> ELSE <<>>]
    /\ disconnects' = IF device # None
                      THEN close(disconnects, device).disconnects
                      ELSE disconnects
    /\ device' = None
    /\ UNCHANGED <<enabled, addon_alive, registered, timers, ntimers, torn,
                   failed_opens, view>>
    /\ connections' = IF device # None THEN connections - 1 ELSE connections

\* `if area is None: return 0.5`
timer_no_view(t) ==
    /\ last' = [Run(t) EXCEPT !.ret = Slow, !.area = "none"]
    /\ UNCHANGED <<device, enabled, addon_alive, registered, timers, ntimers,
                   torn, disconnects, failed_opens, view>>
    /\ UNCHANGED connections

\* The `except` of the open without `_enabled = False`.
timer_open_failed_stays_enabled(t, res) ==
    /\ failed_opens' = failed_opens + 1
    /\ timers' = timers \ {t}
    /\ torn' = torn \ {t}
    /\ last' = [Run(t) EXCEPT !.ret = Stop, !.area = "view3d",
                              !.calls = res.calls, !.open = res.error]
    /\ UNCHANGED <<device, enabled, addon_alive, registered, ntimers,
                   disconnects, view>>
    /\ connections' = IF Connected(res) THEN connections + 1 ELSE connections

\* The `except` of the open: report, disable, stop.  res is what the
\* constructor did before it raised.
timer_open_failed(t, res) ==
    /\ failed_opens' = failed_opens + 1
    /\ enabled' = FALSE
    /\ timers' = timers \ {t}
    /\ torn' = torn \ {t}
    /\ last' = [Run(t) EXCEPT !.ret = Stop, !.area = "view3d",
                              !.calls = res.calls, !.open = res.error]
    /\ UNCHANGED <<device, addon_alive, registered, ntimers, disconnects, view>>
    /\ connections' = IF Connected(res) THEN connections + 1 ELSE connections

\* The `except` of the poll without `_enabled = False`.
timer_read_failed_stays_enabled(t, dev, discs, run) ==
    /\ \E raises \in BOOLEAN :
          last' = [run EXCEPT !.ret = Stop,
                              !.calls = @ \o close(discs, dev).calls,
                              !.disc_raised = raises]
    /\ disconnects' = close(discs, dev).disconnects
    /\ device' = None
    /\ timers' = timers \ {t}
    /\ torn' = torn \ {t}
    /\ UNCHANGED <<enabled, addon_alive, registered, ntimers, failed_opens, view>>
    /\ connections' = IF run.open = "ok" THEN connections ELSE connections - 1

\* The `except` of the poll without `_device = None` after the close.
timer_read_failed_keeps_device(t, dev, discs, run) ==
    /\ \E raises \in BOOLEAN :
          last' = [run EXCEPT !.ret = Stop,
                              !.calls = @ \o close(discs, dev).calls,
                              !.disc_raised = raises]
    /\ disconnects' = close(discs, dev).disconnects
    /\ device' = dev
    /\ enabled' = FALSE
    /\ timers' = timers \ {t}
    /\ torn' = torn \ {t}
    /\ UNCHANGED <<addon_alive, registered, ntimers, failed_opens, view>>
    /\ connections' = IF run.open = "ok" THEN connections ELSE connections - 1

\* The `except` of the poll: close the device dev, drop it, disable, stop.
\* discs are the device objects and run the record of this run so far (they
\* hold the open when this run opened dev).
timer_read_failed(t, dev, discs, run) ==
    /\ \E raises \in BOOLEAN :
          last' = [run EXCEPT !.ret = Stop,
                              !.calls = @ \o close(discs, dev).calls,
                              !.disc_raised = raises]
    /\ disconnects' = close(discs, dev).disconnects
    /\ device' = None
    /\ enabled' = FALSE
    /\ timers' = timers \ {t}
    /\ torn' = torn \ {t}
    /\ UNCHANGED <<addon_alive, registered, ntimers, failed_opens, view>>
    /\ connections' = IF run.open = "ok" THEN connections ELSE connections - 1

\* The poll went through: apply the state if there is one, poll again soon.
timer_poll(t, dev, discs, run, rs, prefs) ==
    /\ view' = IF rs.has_state
               THEN apply_state_to_area(view, prefs, rs.state)
               ELSE view
    /\ InCube(view')
    /\ last' = [run EXCEPT !.ret = Fast, !.applied = rs.has_state]
    /\ device' = dev
    /\ disconnects' = discs
    /\ UNCHANGED <<enabled, addon_alive, registered, timers, ntimers, torn,
                   failed_opens>>
    /\ connections' = IF run.open = "ok" THEN connections + 1 ELSE connections

\* What the driver did in a fetch.
FetchKind(f) ==
    IF f.fault THEN "fault" ELSE IF f.status # 0 THEN "nodata" ELSE "sample"

\* `state = _device.read_state()` on device object dev, and what follows it.
timer_read(t, dev, discs, run) ==
    \E f \in Fetches :
        LET rs  == read_state(f)
            ran == [run EXCEPT !.calls = @ \o rs.calls, !.fetch = FetchKind(f),
                               !.fetched = dev]
        IN  IF rs.raised
            THEN timer_read_failed(t, dev, discs, ran)
            ELSE \E prefs \in Prefs : timer_poll(t, dev, discs, ran, rs, prefs)

\* `_device = SpaceControllerDevice(app_name="Blender")` and what follows it.
timer_open(t, run) ==
    \E env \in DriverEnvs :
        LET res == SpaceControllerDevice(env)
        IN  IF ~res.ok
            THEN timer_open_failed(t, res)
            ELSE timer_read(t, Len(disconnects) + 1, Append(disconnects, 0),
                            [run EXCEPT !.calls = res.calls, !.open = "ok"])

\* The timer without the `if _device is None:` test: it opens on every poll.
spacecontroller_timer_always_opens(t) ==
    IF ~addon_alive
    THEN timer_teardown(t)
    ELSE IF ~enabled
    THEN timer_sleep(t)
    ELSE \E has_view \in BOOLEAN :
            IF ~has_view
            THEN timer_no_view(t)
            ELSE timer_open(t, [Run(t) EXCEPT !.area = "view3d"])

\* The timer that opens the device before it looks for a 3D view.
spacecontroller_timer_opens_first(t) ==
    IF ~addon_alive
    THEN timer_teardown(t)
    ELSE IF ~enabled
    THEN timer_sleep(t)
    ELSE IF device = None
    THEN timer_open(t, Run(t))
    ELSE \E has_view \in BOOLEAN :
            IF ~has_view
            THEN timer_no_view(t)
            ELSE timer_read(t, device, disconnects,
                            [Run(t) EXCEPT !.area = "view3d"])

\* _spacecontroller_timer, run for the scheduled timer t.  has_view is what
\* _find_first_view3d finds: a VIEW_3D area with a WINDOW region, or None.
spacecontroller_timer(t) ==
    IF ~addon_alive
    THEN timer_teardown(t)
    ELSE IF ~enabled
    THEN timer_sleep(t)
    ELSE \E has_view \in BOOLEAN :
            IF ~has_view
            THEN timer_no_view(t)
            ELSE IF device = None
            THEN timer_open(t, [Run(t) EXCEPT !.area = "view3d"])
            ELSE timer_read(t, device, disconnects,
                            [Run(t) EXCEPT !.area = "view3d"])

\* SPACECONTROLLER_OT_toggle.execute
toggle_execute ==
    /\ registered
    /\ enabled' = ~enabled
    /\ last' = Handler("toggle")
    /\ UNCHANGED <<device, addon_alive, registered, timers, ntimers, torn,
                   disconnects, failed_opens, view>>
    /\ UNCHANGED connections

\* register(): reset the three globals, register the classes, add a timer.
\* The host enables an add-on that is not enabled (bpy.utils.register_class
\* raises for a class that is registered already), so register and unregister
\* alternate; the timers of earlier sessions stay with the host until they
\* return None.
register ==
    /\ ~registered
    /\ ntimers < MaxSessions
    /\ addon_alive' = TRUE
    /\ enabled' = TRUE
    /\ device' = None
    /\ registered' = TRUE
    /\ ntimers' = ntimers + 1
    /\ timers' = timers \cup {ntimers + 1}
    /\ failed_opens' = 0
    /\ last' = Handler("register")
    /\ UNCHANGED <<torn, disconnects, view>>
    /\ UNCHANGED connections

\* unregister() without the `_device = None` after the close.
unregister_keeps_device ==
    /\ registered
    /\ addon_alive' = FALSE
    /\ IF device # None
       THEN \E raises \in BOOLEAN :
               /\ disconnects' = close(disconnects, device).disconnects
               /\ last' = [Handler("unregister") EXCEPT
                              !.calls = close(disconnects, device).calls,
                              !.disc_raised = raises]
       ELSE /\ UNCHANGED disconnects
            /\ last' = Handler("unregister")
    /\ registered' = FALSE
    /\ torn' = timers
    /\ UNCHANGED <<device, enabled, timers, ntimers, failed_opens, view>>
    /\ connections' = IF device # None THEN connections - 1 ELSE connections

\* unregister(): clear _addon_alive, close a held device, unregister the
\* classes.  The timers stay scheduled with the host.
unregister ==
    /\ registered
    /\ addon_alive' = FALSE
    /\ IF device # None
       THEN \E raises \in BOOLEAN :
               /\ disconnects' = close(disconnects, device).disconnects
               /\ last' = [Handler("unregister") EXCEPT
                              !.calls = close(disconnects, device).calls,
                              !.disc_raised = raises]
       ELSE /\ UNCHANGED disconnects
            /\ last' = Handler("unregister")
    /\ device' = None
    /\ registered' = FALSE
    /\ torn' = timers
    /\ UNCHANGED <<enabled, timers, ntimers, failed_opens, view>>
    /\ connections' = IF device # None THEN connections - 1 ELSE connections

\* The module as imported: the globals' initial values, nothing registered.
Init ==
    /\ device = None
    /\ enabled = TRUE
    /\ addon_alive = TRUE
    /\ registered = FALSE
    /\ timers = {}
    /\ ntimers = 0
    /\ torn = {}
    /\ disconnects = <<>>
    /\ failed_opens = 0
    /\ connections = 0
    /\ view = [view_location |-> <<0, 0, 0>>, view_rotation |-> <<1, 0, 0, 0>>]
    /\ last = Handler("import")

Next ==
    \/ register
    \/ unregister
    \/ toggle_execute
    \/ \E t \in timers : spacecontroller_timer(t)

Spec == Init /\ [][Next]_vars

\* ------------------------------------------------------------------------
\* The device wrapper on its own: any client constructing, polling and
\* closing SpaceControllerDevice objects (the wrapper does not depend on the
\* add-on).  disconnects holds the constructed objects, failed_opens counts
\* the constructions that raised, last is the last call.
\* ------------------------------------------------------------------------

\* Everything the platform and the driver can answer to one construction.
OpenEnvs ==
    [platform : {"win32", "linux"}, dll_loads : BOOLEAN, has_symbols : BOOLEAN,
     connect_status : {-1, 0, 1}, devnum_status : {0, 1},
     num_all : {-1, 0, 1, 2}]

\* SpaceControllerDevice(app_name): a new object when __init__ returns.
device_open ==
    /\ Len(disconnects) + failed_opens < MaxObjects
    /\ \E env \in OpenEnvs :
          LET res == SpaceControllerDevice(env)
          IN  /\ disconnects' = IF res.ok THEN Append(disconnects, 0)
                                ELSE disconnects
              /\ failed_opens' = IF res.ok THEN failed_opens
                                 ELSE failed_opens + 1
              /\ connections' = IF Connected(res) THEN connections + 1
                                ELSE connections
              /\ last' = [op |-> "open", env |-> env, res |-> res,
                          live |-> { h \in 1..Len(disconnects) :
                                        disconnects[h] = 0 }]
    /\ UNCHANGED <<device, enabled, addon_alive, registered, timers, ntimers,
                   torn, view>>

\* read_state() on a constructed object.
device_read ==
    /\ \E h \in 1..Len(disconnects), f \in Fetches :
          last' = [op |-> "read", object |-> h, fetch |-> f,
                   res |-> read_state(f)]
    /\ UNCHANGED <<device, enabled, addon_alive, registered, timers, ntimers,
                   torn, disconnects, failed_opens, view>>
    /\ UNCHANGED connections

\* close() on an object that has not been closed.
device_close ==
    /\ \E h \in 1..Len(disconnects) :
          /\ disconnects[h] = 0
          /\ disconnects' = close(disconnects, h).disconnects
          /\ last' = [op |-> "close", object |-> h,
                      calls |-> close(disconnects, h).calls]
    /\ UNCHANGED <<device, enabled, addon_alive, registered, timers, ntimers,
                   torn, failed_opens, view>>
    /\ connections' = connections - 1

NextDevice ==
    \/ device_open
    \/ device_read
    \/ device_close

SpecDevice == Init /\ [][NextDevice]_vars

\* ------------------------------------------------------------------------
\* The view update on its own: _apply_state_to_area applied once to every
\* combination of area, view state, preferences and controller state below.
\* ------------------------------------------------------------------------

\* The unit quaternions with whole components: the identity, the half turns
\* about the three axes, and their negatives.
UnitQuats ==
    { << 1, 0, 0, 0 >>, << -1, 0, 0, 0 >>, << 0, 1, 0, 0 >>, << 0, -1, 0, 0 >>,
      << 0, 0, 1, 0 >>, << 0, 0, -1, 0 >>, << 0, 0, 0, 1 >>, << 0, 0, 0, -1 >> }

ProbeAreas ==
    { [type |-> "VIEW_3D", has_region3d |-> TRUE],
      [type |-> "VIEW_3D", has_region3d |-> FALSE],
      [type |-> "NONE", has_region3d |-> FALSE] }

ProbeViews ==
    { [view_location |-> << 1, -2, 3 >>, view_rotation |-> q] : q \in UnitQuats }

ProbePrefs ==
    [move_sensitivity : {1, 3}, rotate_sensitivity : {1, 2},
     invert_x : BOOLEAN, invert_y : BOOLEAN, invert_z : BOOLEAN,
     enable_rotation : BOOLEAN]

ProbeSamples ==
    { Sample(tx, ty, tz, r[1], r[2], r[3]) :
        tx \in {-1, 0, 2}, ty \in {-1, 0, 2}, tz \in {-1, 0, 2},
        r \in { <<0, 0, 0>>, <<1, 0, 0>>, <<0, 1, 0>>, <<0, 0, 1>>, <<1, 1, 1>> } }

\* The add-on as imported, with a view state and the inputs of one update.
InitView ==
    /\ device = None
    /\ enabled = TRUE
    /\ addon_alive = TRUE
    /\ registered = FALSE
    /\ timers = {}
    /\ ntimers = 0
    /\ torn = {}
    /\ disconnects = <<>>
    /\ failed_opens = 0
    /\ connections = 0
    /\ view \in ProbeViews
    /\ \E area \in ProbeAreas, prefs \in ProbePrefs, state \in ProbeSamples :
          last = [op |-> "inputs", area |-> area, prefs |-> prefs,
                  state |-> state]

\* _apply_state_to_area(area, state) on the inputs drawn.
view_apply ==
    /\ last.op = "inputs"
    /\ LET r == apply_state_to_area_in(last.area, view, last.prefs, last.state)
       IN  /\ view' = r.view
           /\ last' = [op |-> "applied", area |-> last.area,
                       prefs |-> last.prefs, state |-> last.state,
                       before |-> view, tagged |-> r.tagged]
    /\ UNCHANGED <<device, enabled, addon_alive, registered, timers, ntimers,
                   torn, disconnects, failed_opens>>
    /\ UNCHANGED connections

NextView == view_apply

SpecView == InitView /\ [][NextView]_vars

\* ------------------------------------------------------------------------
\* Properties
\* ------------------------------------------------------------------------

\* The device objects whose connection was opened and not yet disconnected.
LiveHandles == { h \in 1..Len(disconnects) : disconnects[h] = 0 }

NoCall(c, calls) == \A i \in 1..Len(calls) : calls[i] # c

OpenFailed(r) == r.op = "timer" /\ r.open \notin {"-", "ok"}

\* C1: every device object that was opened has scDisconnect issued through it
\* exactly once as soon as it is let go of (by unregister, by the teardown
\* poll or by a fetch fault), and not at all while it is held; nothing ever
\* issues a second one.
C1_DisconnectedExactlyOnce ==
    /\ device \in 0..Len(disconnects)
    /\ \A h \in 1..Len(disconnects) :
          disconnects[h] = IF device = h THEN 0 ELSE 1

\* The poll that follows an unregister, after two devices were opened and let go.
C1_Witness ==
    /\ Len(disconnects) >= 2
    /\ ~addon_alive
    /\ last.op = "timer"
    /\ last.ret = Stop

\* C2: a timer that was scheduled when unregister() ran returns None the next
\* time it runs and issues no connect and no fetch, whatever happened in
\* between.
C2_TornTimerStops ==
    [][ \A t \in torn :
           (last'.op = "timer" /\ last'.timer = t)
           => /\ last'.ret = Stop
              /\ NoCall("scConnect2", last'.calls)
              /\ NoCall("scFetchStdData", last'.calls) ]_vars

\* C3: a poll with the add-on alive and the flag off returns 0.5, issues no
\* driver call and keeps the device; the toggle leaves the device alone; and a
\* poll that fetches while a device is held fetches on that device without
\* connecting again.
C3_DisabledPollIsNoOp ==
    [][ /\ (last'.op = "timer" /\ addon_alive /\ ~enabled)
           => /\ last'.ret = Slow
              /\ last'.calls = <<>>
              /\ device' = device
              /\ disconnects' = disconnects
              /\ last'.timer \in timers'
        /\ (last'.op = "toggle")
           => /\ device' = device
              /\ disconnects' = disconnects
        /\ (last'.op = "timer" /\ device # None /\ last'.fetch # "-")
           => /\ last'.fetched = device
              /\ NoCall("scConnect2", last'.calls) ]_vars

\* A poll that slept on the flag while a device was held.
C3_Witness ==
    /\ last.op = "timer"
    /\ last.ret = Slow
    /\ last.area = "unseen"
    /\ addon_alive
    /\ ~enabled
    /\ device # None

\* C4: a poll that finds no 3D viewport while a device is held keeps the
\* device open, leaves the view alone and returns 0.5 and stays scheduled; a
\* poll that finds a viewport while a device is held fetches on that device
\* without opening another.
C4_NoViewportKeepsConnection ==
    [][ /\ (last'.op = "timer" /\ last'.area = "none" /\ device # None)
           => /\ device' = device
              /\ disconnects' = disconnects
              /\ view' = view
              /\ ~last'.applied
              /\ last'.calls = <<>>
              /\ last'.ret = Slow
              /\ last'.timer \in timers'
        /\ (last'.op = "timer" /\ last'.area = "view3d" /\ device # None)
           => /\ last'.fetched = device
              /\ last'.open = "-" ]_vars

\* A poll that found no viewport while a device was held.
C4_Witness ==
    /\ last.op = "timer"
    /\ last.area = "none"
    /\ device # None
    /\ disconnects[device] = 0

\* C5: after a poll whose fetch faulted, the device it fetched on has been
\* disconnected, no device is held, the flag is off and the timer returned
\* None and is no longer scheduled, whether or not scDisconnect raised.
C5_FetchFaultStops ==
    (last.op = "timer" /\ last.fetch = "fault")
    => /\ device = None
       /\ ~enabled
       /\ last.ret = Stop
       /\ last.timer \notin timers
       /\ last.fetched \in 1..Len(disconnects)
       /\ disconnects[last.fetched] = 1
       /\ last.calls[Len(last.calls)] = "scDisconnect"

\* A fetch fault whose disconnect raised as well.
C5_Witness ==
    /\ last.op = "timer"
    /\ last.fetch = "fault"
    /\ last.disc_raised

\* C6: a poll whose fetch returned a nonzero status leaves the view and the
\* flag as they were, holds the device it fetched on, still connected, returns
\* 0.01 and stays scheduled, as a poll whose fetch returned a sample does.
C6_NonzeroStatusIsNoData ==
    [][ /\ (last'.op = "timer" /\ last'.fetch = "nodata")
           => /\ view' = view
              /\ ~last'.applied
              /\ enabled' = enabled
              /\ device' = last'.fetched
              /\ device' # None
              /\ disconnects'[device'] = 0
              /\ last'.ret = Fast
              /\ last'.timer \in timers'
        /\ (last'.op = "timer" /\ last'.fetch = "sample")
           => /\ last'.ret = Fast
              /\ last'.applied ]_vars

\* A poll whose fetch returned a nonzero status.
C6_Witness ==
    /\ last.op = "timer"
    /\ last.fetch = "nodata"
    /\ last.ret = Fast
    /\ device # None

\* C7: after a poll whose open failed, for whichever reason, no device is
\* held, the flag is off, nothing was fetched and the timer returned None and
\* is no longer scheduled.
C7_OpenFailureStops ==
    OpenFailed(last)
    => /\ device = None
       /\ ~enabled
       /\ last.ret = Stop
       /\ last.fetch = "-"
       /\ last.timer \notin timers

\* An open that failed because no device was enumerated.
C7_Witness ==
    /\ OpenFailed(last)
    /\ last.open = "RuntimeError: no devices found"
    /\ last.calls = <<"scConnect2", "scGetDevNum">>

\* C8: between a register() and the next one there is at most one failed open
\* and one failure report.
C8_OneFailedOpenPerSession == failed_opens <= 1

\* C9: once an open has failed, the flag stays off until the next register().
C9_StaysDisabledAfterOpenFailure == failed_opens > 0 => ~enabled

\* C10: at most one connection is open and not disconnected at any time, and
\* an open is attempted only while no device is held: a failed attempt leaves
\* none held, a successful one leaves the new device the only live one.
C10_AtMostOneHandle ==
    /\ Cardinality(LiveHandles) <= 1
    /\ OpenFailed(last) => device = None
    /\ (last.op = "timer" /\ last.open = "ok") => LiveHandles \subseteq {Len(disconnects)}

\* A second device held while two timers are scheduled.
C10_Witness ==
    /\ Len(disconnects) >= 2
    /\ device = Len(disconnects)
    /\ Cardinality(timers) >= 2


\* C11: a poll attempts the open only with the add-on alive, the flag on, a 3D
\* viewport found and no device held; a poll that finds no viewport while no
\* device is held issues no driver call, holds no device afterwards, returns
\* 0.5 and stays scheduled.
C11_OpenOnlyWithViewport ==
    [][ /\ (last'.op = "timer" /\ last'.open # "-")
           => /\ addon_alive
              /\ enabled
              /\ last'.area = "view3d"
              /\ device = None
        /\ (last'.op = "timer" /\ last'.area = "none" /\ device = None)
           => /\ device' = None
              /\ disconnects' = disconnects
              /\ last'.calls = <<>>
              /\ last'.open = "-"
              /\ last'.ret = Slow
              /\ last'.timer \in timers' ]_vars

\* A poll that found no viewport while no device was held.
C11_Witness ==
    /\ last.op = "timer"
    /\ last.area = "none"
    /\ last.ret = Slow
    /\ device = None
    /\ addon_alive
    /\ enabled


\* The library loaded and its entry points were found.
LibraryReady(env) ==
    env.platform = "win32" /\ env.dll_loads /\ env.has_symbols

C13_SecondOpenFails ==
    /\ (last.op = "open" /\ last.live # {}) => ~last.res.ok
    /\ Cardinality(LiveHandles) <= 1


\* The update ran on a VIEW_3D area that has a region_3d.
Applied == last.op = "applied" /\ last.tagged

\* The rotation a whole unit quaternion stands for, as the signs it gives the
\* three axes: the identity, or a half turn about X, Y or Z.
AxisSigns(q) ==
    IF q[1] # 0 THEN << 1, 1, 1 >>
    ELSE IF q[2] # 0 THEN << 1, -1, -1 >>
    ELSE IF q[3] # 0 THEN << -1, 1, -1 >>
    ELSE << -1, -1, 1 >>

Sign(flag) == IF flag THEN -1 ELSE 1

\* The change of the view pivot in world space and in camera space.
WorldDelta(before, after) ==
    << after.view_location[1] - before.view_location[1],
       after.view_location[2] - before.view_location[2],
       after.view_location[3] - before.view_location[3] >>

CameraDelta(before, after) ==
    LET d == WorldDelta(before, after)
        s == AxisSigns(before.view_rotation)
    IN  << s[1] * d[1], s[2] * d[2], s[3] * d[3] >>

\* C14: with enable_rotation off, an update leaves view_rotation as it was
\* whatever rx, ry, rz are, moves view_location by the sample's translation,
\* scaled by move_sensitivity, sign-adjusted per axis and turned by the view
\* rotation, and tags the area for redraw.
C14_RotationDisabled ==
    (last.op = "applied" /\ last.area.type = "VIEW_3D" /\ last.area.has_region3d
       /\ ~last.prefs.enable_rotation)
    => LET p == last.prefs
           s == last.state
           r == AxisSigns(last.before.view_rotation)
       IN  /\ view.view_rotation = last.before.view_rotation
           /\ WorldDelta(last.before, view) =
                 << r[1] * s.tx * p.move_sensitivity * Sign(p.invert_x),
                    r[2] * s.ty * p.move_sensitivity * Sign(p.invert_y),
                    r[3] * s.tz * p.move_sensitivity * Sign(p.invert_z) >>
           /\ last.tagged

\* Rotation off, a turned view, a sample that both moves and rotates.
C14_Witness ==
    /\ Applied
    /\ ~last.prefs.enable_rotation
    /\ last.before.view_rotation = << 0, 0, 1, 0 >>
    /\ last.state.rx = 1 /\ last.state.ry = 1 /\ last.state.rz = 1
    /\ last.state.tx = 2 /\ last.state.ty = -1 /\ last.state.tz = 2
    /\ last.prefs.invert_y
    /\ view.view_location # last.before.view_location

\* C15: an update with a sample whose six axes are zero leaves view_rotation
\* and view_location as they were, whatever the preferences and the view.
C15_ZeroSampleIsNoOp ==
    (last.op = "applied"
       /\ last.state.tx = 0 /\ last.state.ty = 0 /\ last.state.tz = 0
       /\ last.state.rx = 0 /\ last.state.ry = 0 /\ last.state.rz = 0)
    => view = last.before

\* A zero sample applied with rotation on, every axis inverted, a turned view.
C15_Witness ==
    /\ Applied
    /\ last.state = Sample(0, 0, 0, 0, 0, 0)
    /\ last.prefs.enable_rotation
    /\ last.prefs.invert_x /\ last.prefs.invert_y /\ last.prefs.invert_z
    /\ last.prefs.move_sensitivity = 3
    /\ last.before.view_rotation = << 0, 0, 0, -1 >>

\* The camera-space translation of the update of view v under preferences p.
CameraDeltaOf(v, p, s) == CameraDelta(v, apply_state_to_area(v, p, s))

\* C16: for the same sample and view, flipping invert_x negates component 0
\* of the camera-space translation and leaves components 1 and 2 alone,
\* likewise invert_y for component 1 and invert_z for component 2, and
\* flipping a flag twice gives the translation back.
C16_InvertFlagsIndependent ==
    Applied
    => LET v  == last.before
           p  == last.prefs
           s  == last.state
           d  == CameraDelta(v, view)
           px == [p EXCEPT !.invert_x = ~@]
           py == [p EXCEPT !.invert_y = ~@]
           pz == [p EXCEPT !.invert_z = ~@]
       IN  /\ CameraDeltaOf(v, px, s) = << -d[1], d[2], d[3] >>
           /\ CameraDeltaOf(v, py, s) = << d[1], -d[2], d[3] >>
           /\ CameraDeltaOf(v, pz, s) = << d[1], d[2], -d[3] >>
           /\ CameraDeltaOf(v, [px EXCEPT !.invert_x = ~@], s) = d
           /\ CameraDeltaOf(v, [py EXCEPT !.invert_y = ~@], s) = d
           /\ CameraDeltaOf(v, [pz EXCEPT !.invert_z = ~@], s) = d

\* A sample that moves along all three axes, applied to a turned view.
C16_Witness ==
    /\ Applied
    /\ last.state.tx = 2 /\ last.state.ty = -1 /\ last.state.tz = 2
    /\ last.prefs.invert_x /\ ~last.prefs.invert_y
    /\ last.before.view_rotation = << 0, 1, 0, 0 >>
    /\ CameraDelta(last.before, view) = << -2 * last.prefs.move_sensitivity,
                                           -1 * last.prefs.move_sensitivity,
                                           2 * last.prefs.move_sensitivity >>


\* C17: while no device is held no driver connection is outstanding, and the
\* connects that succeeded never exceed the disconnects issued by more than
\* one.
C17_NoOutstandingConnection ==
    /\ device = None => connections = 0
    /\ connections <= 1


\* scDisconnect calls issued so far through object h, none for an object that
\* does not exist yet.
IssuedBefore(h) == IF h <= Len(disconnects) THEN disconnects[h] ELSE 0

\* C18: a held device is one through which no scDisconnect was issued; a poll
\* fetches on the device it holds, or on the one it has just opened, and never
\* on one that was disconnected; and a handler that issues scDisconnect
\* through a device holds none when it returns.
C18_NoFetchAfterDisconnect ==
    [][ /\ device' # None
           => /\ device' \in 1..Len(disconnects')
              /\ disconnects'[device'] = 0
        /\ (last'.op = "timer" /\ last'.fetch # "-")
           => /\ last'.fetched \in 1..Len(disconnects')
              /\ IssuedBefore(last'.fetched) = 0
              /\ IF last'.open = "ok"
                 THEN device = None /\ last'.fetched = Len(disconnects) + 1
                 ELSE last'.fetched = device
        /\ \A h \in 1..Len(disconnects') :
              disconnects'[h] > IssuedBefore(h) => device' = None ]_vars

\* A fetch on a second device after the first one was disconnected.
C18_Witness ==
    /\ last.op = "timer"
    /\ last.fetch = "sample"
    /\ last.fetched = 2
    /\ device = 2
    /\ disconnects = << 1, 0 >>

\* C19: while the add-on is registered and alive and the flag is on (the panel
\* reads Enabled), a poll timer is scheduled.
C19_EnabledMeansScheduled ==
    (registered /\ addon_alive /\ enabled) => timers # {}

====
